---- MODULE Spec2Model ----
(***************************************************************************)
(* Control plane of the DiscordBot repository: the Manager's control       *)
(* server (src/manager.py: accept loop, one handler thread per connection, *)
(* the bot_id -> socket registry, stop_bot, shutdown) and the worker's     *)
(* control client (src/botbase.py: run, send_message / wait_for_ack, the   *)
(* communication thread and the command queue), and the Manager's process  *)
(* supervision (src/manager.py: start_bot, kill_bot, the bot_processes     *)
(* dictionary and the file temp/bot_process_info.json).                    *)
(*                                                                         *)
(* A TCP byte stream is a sequence of symbols.  json.dumps(m).encode() is  *)
(* two symbols, the two halves of the text of m, so that one recv() can    *)
(* return half a message, one message or several; the line feed the        *)
(* Manager splits on is a symbol of its own.                               *)
(***************************************************************************)
EXTENDS Naturals, Sequences, FiniteSets, TLC

\* ------------------------------------------------------------------ bounds
MaxRawSends == 2      \* lines written by the raw TCP clients of the Manager alone
MaxRawSendsComposed == 1  \* lines written by the raw TCP client beside the worker
MaxStops == 1         \* clicks on a Stop button
MaxPeerWrites == 2    \* messages a protocol peer writes to the worker's socket
MaxStarts == 3        \* clicks on a Start button, the Manager's supervision alone
MaxStartsServed == 1  \* clicks on a Start button beside the control server
MaxKills == 1         \* calls of kill_bot
MaxRestarts == 1      \* times the Manager program is started again after it exited
MaxSecondStarts == 1  \* calls of start_bot in a second Manager instance

\* ---------------------------------------------------------------- universe
Workers == {"w1"}                 \* BotBase processes; each dials at most one socket
RawClients == {"r1", "r2"}        \* other TCP clients of the Manager's port
Conns == Workers \cup RawClients  \* a connection is named after its client
BotIds == {"w1", "w2"}            \* config.json "Bots" keys
NoSock == "nosock"
NoId == "-"
Pids == {1, 2}                    \* process ids the operating system hands out
\* no process has this pid
FreePid == [state |-> "free", cmdline |-> << >>, launch |-> 0, child |-> FALSE]
\* bot_id absent from Manager.bot_processes
NoProc == [pid |-> 0, launch |-> 0, returncode |-> "None"]

\* start_bot line 276: the launch command of bot b
Command(b) == << "python", "type.py", "--bot_id", b >>
\* the command line of a process that is not one of the Manager's workers
OtherCmdline == << "other" >>
\* ' '.join(words): equal for equal word lists, and here for those only
Join(words) == [joined |-> words]
\* bot_id absent from temp/bot_process_info.json: data.get(bot_id, {}).get('pid') is None
NoRec == [pid |-> 0, command |-> Join(<< >>), timestamp |-> 0]
\* no call of start_bot yet
NoStart == [bot_id |-> NoId, outcome |-> "-"]

\* ------------------------------------------------------------ wire format
Msg(kind, b) == [kind |-> kind, bot_id |-> b]
Sym(kind, b, h) == [kind |-> kind, bot_id |-> b, h |-> h]
NL == Sym("NL", NoId, 0)
JsonError == Msg("error", NoId)

\* kinds whose text is a JSON document
JsonKinds == {"connected", "ack", "idonly", "stop", "number"}
\* JSON objects that carry the key bot_id
IdKinds == {"connected", "ack", "idonly"}

\* x.encode('utf-8') of the text of m: json.dumps never emits a line feed
Encode(m) == << Sym(m.kind, m.bot_id, 1), Sym(m.kind, m.bot_id, 2) >>

ConnectedMsg(w) == Msg("connected", w)
AckMsg(w) == Msg("ack", w)
StopMsg == Msg("stop", NoId)
OKText == Encode(Msg("OK", NoId))

IsWhole(chunk) ==
    /\ Len(chunk) = 2
    /\ chunk[1].h = 1 /\ chunk[2].h = 2
    /\ chunk[1].kind = chunk[2].kind
    /\ chunk[1].bot_id = chunk[2].bot_id

\* json.loads(text): a value only for exactly one complete document
JsonLoads(chunk) ==
    IF IsWhole(chunk) /\ chunk[1].kind \in JsonKinds
    THEN Msg(chunk[1].kind, chunk[1].bot_id)
    ELSE JsonError

Prefixes(s) == { SubSeq(s, 1, n) : n \in 1..Len(s) }
Drop(s, n) == SubSeq(s, n + 1, Len(s))

HasNL(buf) == \E i \in 1..Len(buf) : buf[i] = NL
FirstNL(buf) == CHOOSE i \in 1..Len(buf) : buf[i] = NL /\ \A j \in 1..(i - 1) : buf[j] # NL

VARIABLES
    \* Manager
    mgr,              \* "off" | "up" | "exited" | "aborted"  (process not started / bound and
                      \* listening / gone / gone because bind raised)
    shuttingdown,     \* Manager.shuttingdown
    client_sockets,   \* Manager.client_sockets: bot_id -> connection, NoSock when absent
    backlog,          \* connections dialled and not yet accepted
    hpc,              \* handler thread of a connection: "none" | "select" | "split" | "done" | "crashed"
    hbuf,             \* handle_connection's local buffer
    hconflict,        \* bot_id of the last "unexpected client_socket" error the handler logged
    clientEnd,        \* client end of a connection: "unused" | "open" | "closed" | "reset"
    c2m,              \* bytes in flight, client -> Manager
    m2c,              \* bytes in flight, Manager -> client
    \* worker
    wpc,              \* main thread of the worker
    running,          \* BotBase._running
    sock,             \* BotBase.manager_socket: "none" | "open"
    cpc,              \* communication thread: "none" | "select" | "ack" | "put" | "dead"
    ccur,             \* the chunk the communication thread has read
    waiting_for_ack,  \* BotBase.waiting_for_ack
    message_queue,    \* BotBase.message_queue
    queue_lock,       \* holder of BotBase.queue_lock: "free" | "main" | "comm"
    \* history
    dials,            \* calls of create_socket
    connectedSent,    \* the connected message was written to the socket
    ackSeen,          \* the communication loop recognised an ack after the connected message was written
    acksForCur,       \* acks written for the chunk in ccur
    enq,              \* every put on the queue: the message, and the acks written for its chunk before the put
    sentCmds,         \* commands written to the worker's socket
    handed,           \* messages passed to BotBase.process_message
    stopCalls,        \* calls of stop_bot
    stopAfterConn,    \* stop_bot(w) was called after the Manager received w's connected message
    rawSends,         \* lines written by the raw clients
    peerWrites,       \* messages written by the protocol peer
    \* supervision
    bot_processes,    \* Manager.bot_processes: bot_id -> Popen object [pid, launch, returncode], or NoProc
    bot_process_info, \* temp/bot_process_info.json: bot_id -> [pid, command, timestamp], or NoRec
    procs,            \* the operating system's processes: pid -> [state, cmdline, launch, child], or FreePid
    clock,            \* launches so far: the time.time() of a launch, and its identity
    stop_pc,          \* the bot_id stop_bot found in client_sockets (line 316) and has yet to send to (line 319)
    startCalls,       \* calls of start_bot
    lastStart,        \* the last call of start_bot: [bot_id, outcome]
    killCalls,        \* calls of kill_bot
    restarts,         \* starts of the Manager program after the first
    stopOutcomes,     \* what calls of stop_bot did and returned: [sent, result]
    stopRequested,    \* bot_ids stop_bot was called for while a worker process of theirs was alive
    exitConfirmed,    \* launches the Manager has seen to be over (poll() not None, pid gone, pid of another program)
    \* the host
    constructed,      \* Manager.__init__ has returned
    file_torn,        \* temp/bot_process_info.json was truncated by open(..., 'w') and is not yet a whole document
    disk,             \* what open('temp/bot_process_info.json', 'w') does: "ok" | "readonly" (it raises)
    m2_pc,            \* start_bot in a second Manager instance: "idle" | "read" | "dump"
    m2_bot_id,        \* its argument bot_id
    m2_data,          \* its local variable data
    secondStarts,     \* its calls of start_bot
    written,          \* bot_ids whose record a Manager has written to the file
    tornRead,         \* a json.load of the file met a partly written document
    lastKill          \* the last call of kill_bot: [bot_id, outcome]

mgrVars == << mgr, shuttingdown, client_sockets, backlog, hpc, hbuf, hconflict >>
netVars == << clientEnd, c2m, m2c >>
workerVars == << wpc, running, sock, cpc, ccur, waiting_for_ack, message_queue, queue_lock >>
histVars == << dials, connectedSent, ackSeen, acksForCur, enq, sentCmds, handed,
               stopCalls, stopAfterConn, rawSends, peerWrites >>
supVars == << bot_processes, bot_process_info, procs, clock, stop_pc, startCalls, lastStart,
              killCalls, restarts, stopOutcomes, stopRequested, exitConfirmed >>
hostVars == << constructed, file_torn, disk, m2_pc, m2_bot_id, m2_data, secondStarts, written,
               tornRead, lastKill >>
vars == << mgrVars, netVars, workerVars, histVars, supVars, hostVars >>

Init ==
    /\ mgr = "off"
    /\ shuttingdown = FALSE
    /\ client_sockets = [b \in BotIds |-> NoSock]
    /\ backlog = {}
    /\ hpc = [c \in Conns |-> "none"]
    /\ hbuf = [c \in Conns |-> << >>]
    /\ hconflict = [c \in Conns |-> NoId]
    /\ clientEnd = [c \in Conns |-> "unused"]
    /\ c2m = [c \in Conns |-> << >>]
    /\ m2c = [c \in Conns |-> << >>]
    /\ wpc = [w \in Workers |-> "start"]
    /\ running = [w \in Workers |-> FALSE]
    /\ sock = [w \in Workers |-> "none"]
    /\ cpc = [w \in Workers |-> "none"]
    /\ ccur = [w \in Workers |-> << >>]
    /\ waiting_for_ack = [w \in Workers |-> FALSE]
    /\ message_queue = [w \in Workers |-> << >>]
    /\ queue_lock = [w \in Workers |-> "free"]
    /\ dials = [w \in Workers |-> 0]
    /\ connectedSent = [w \in Workers |-> FALSE]
    /\ ackSeen = [w \in Workers |-> FALSE]
    /\ acksForCur = [w \in Workers |-> 0]
    /\ enq = [w \in Workers |-> << >>]
    /\ sentCmds = [w \in Workers |-> << >>]
    /\ handed = [w \in Workers |-> << >>]
    /\ stopCalls = 0
    /\ stopAfterConn = [w \in Workers |-> FALSE]
    /\ rawSends = 0
    /\ peerWrites = 0
    /\ bot_processes = [b \in BotIds |-> NoProc]
    /\ bot_process_info = [b \in BotIds |-> NoRec]
    /\ procs = [p \in Pids |-> FreePid]
    /\ clock = 0
    /\ stop_pc = NoId
    /\ startCalls = 0
    /\ lastStart = NoStart
    /\ killCalls = 0
    /\ restarts = 0
    /\ stopOutcomes = {}
    /\ stopRequested = {}
    /\ exitConfirmed = {}
    /\ constructed = FALSE
    /\ file_torn = FALSE
    /\ disk = "ok"
    /\ m2_pc = "idle"
    /\ m2_bot_id = NoId
    /\ m2_data = [b \in BotIds |-> NoRec]
    /\ secondStarts = 0
    /\ written = {}
    /\ tornRead = FALSE
    /\ lastKill = NoStart

\* =================================================================== Manager

\* Manager.__init__: bind the server socket and start the accept thread
ManagerStart ==
    /\ mgr = "off"
    /\ mgr' = "up"
    /\ UNCHANGED << shuttingdown, client_sockets, backlog, hpc, hbuf, hconflict >>
    /\ UNCHANGED << netVars, workerVars, histVars >>
    /\ UNCHANGED supVars
    /\ UNCHANGED hostVars

\* Manager.__init__ line 28: bind raises (the address is taken); nothing
\* catches it, so __init__ ends before root.mainloop() and the process ends
ManagerBindFails ==
    /\ mgr = "off"
    /\ mgr' = "aborted"
    /\ UNCHANGED << shuttingdown, client_sockets, backlog, hpc, hbuf, hconflict >>
    /\ UNCHANGED << netVars, workerVars, histVars >>
    /\ UNCHANGED supVars
    /\ UNCHANGED hostVars

\* handle_connection lines 64-66: the lines split off a buffer, in order
RECURSIVE Lines(_)
Lines(buf) ==
    IF ~HasNL(buf) THEN << >>
    ELSE << SubSeq(buf, 1, FirstNL(buf) - 1) >> \o Lines(Drop(buf, FirstNL(buf)))

\* handle_connection lines 64-67 with process_message line 71: the messages
\* the handler decodes from the bytes received so far
HandlerDecode(buf) == [i \in 1..Len(Lines(buf)) |-> JsonLoads(Lines(buf)[i])]

\* Manager.start_server: accept one connection and start its handler thread
AcceptConn(c) ==
    /\ mgr = "up" /\ ~shuttingdown
    /\ c \in backlog
    /\ backlog' = backlog \ {c}
    /\ hpc' = [hpc EXCEPT ![c] = "select"]
    /\ UNCHANGED << mgr, shuttingdown, client_sockets, hbuf, hconflict >>
    /\ UNCHANGED << netVars, workerVars, histVars >>
    /\ UNCHANGED supVars
    /\ UNCHANGED hostVars


\* where the handler goes after one process_message: the inner
\* `while b'\n' in buffer` loop, or back to select
AfterMessage(buf) == IF HasNL(buf) THEN "split" ELSE "select"

\* Manager.handle_connection, lines 55-64: recv(1024) returns some of the bytes
\* in flight, which are appended to the buffer
HandlerRecv(c) ==
    /\ mgr = "up" /\ hpc[c] = "select" /\ ~shuttingdown
    /\ clientEnd[c] # "reset"
    /\ c2m[c] # << >>
    /\ \E data \in Prefixes(c2m[c]) :
        /\ c2m' = [c2m EXCEPT ![c] = Drop(c2m[c], Len(data))]
        /\ hbuf' = [hbuf EXCEPT ![c] = hbuf[c] \o data]
        /\ hpc' = [hpc EXCEPT ![c] = AfterMessage(hbuf[c] \o data)]
    /\ UNCHANGED << mgr, shuttingdown, client_sockets, backlog, hconflict, clientEnd, m2c >>
    /\ UNCHANGED << workerVars, histVars >>
    /\ UNCHANGED supVars
    /\ UNCHANGED hostVars

\* process_message as it would be if it overwrote a known bot_id
RegisteredOverwrite(reg, b, c) == [reg EXCEPT ![b] = c]

\* Manager.process_message lines 74-80, for a message that carries bot_id b on
\* socket c: a bot_id the registry holds keeps its socket, a new one is added.
\* No call and no backward jump lies between the lookup of line 74 and the store
\* of line 80, so the interpreter does not switch threads between them.
Registered(reg, b, c) == IF reg[b] # NoSock THEN reg ELSE [reg EXCEPT ![b] = c]

\* lines 76-77: the error logged for a known bot_id on another socket
Conflict(reg, b, c) == reg[b] # NoSock /\ reg[b] # c

\* lines 65-67 and Manager.process_message: split one line off the buffer,
\* json.loads it, register its bot_id
HandlerProcess(c) ==
    /\ hpc[c] = "split"
    /\ LET i == FirstNL(hbuf[c])
           message == SubSeq(hbuf[c], 1, i - 1)
           rest == Drop(hbuf[c], i)
           v == JsonLoads(message)
       IN /\ hbuf' = [hbuf EXCEPT ![c] = rest]
          /\ IF v = JsonError
             THEN \* json.JSONDecodeError: logged
                  /\ hpc' = [hpc EXCEPT ![c] = AfterMessage(rest)]
                  /\ UNCHANGED << client_sockets, hconflict >>
             ELSE IF v.kind = "number"
             THEN \* `'bot_id' in 5` raises TypeError, which nothing catches
                  /\ hpc' = [hpc EXCEPT ![c] = "crashed"]
                  /\ UNCHANGED << client_sockets, hconflict >>
             ELSE IF v.kind \in IdKinds
             THEN /\ hpc' = [hpc EXCEPT ![c] = AfterMessage(rest)]
                  /\ client_sockets' = Registered(client_sockets, v.bot_id, c)
                  /\ hconflict' = [hconflict EXCEPT ![c] =
                        IF Conflict(client_sockets, v.bot_id, c) THEN v.bot_id ELSE hconflict[c]]
             ELSE \* no bot_id: logged
                  /\ hpc' = [hpc EXCEPT ![c] = AfterMessage(rest)]
                  /\ UNCHANGED << client_sockets, hconflict >>
    /\ UNCHANGED << mgr, shuttingdown, backlog >>
    /\ UNCHANGED << netVars, workerVars, histVars >>
    /\ UNCHANGED supVars
    /\ UNCHANGED hostVars

\* lines 58-63: the registry without the entries of socket c
WithoutSocket(reg, c) == [b \in BotIds |-> IF reg[b] = c THEN NoSock ELSE reg[b]]

\* lines 57-63: recv returns b'' (the client closed): drop the socket's entries, break
HandlerEOF(c) ==
    /\ mgr = "up" /\ hpc[c] = "select" /\ ~shuttingdown
    /\ clientEnd[c] = "closed" /\ c2m[c] = << >>
    /\ client_sockets' = WithoutSocket(client_sockets, c)
    /\ hpc' = [hpc EXCEPT ![c] = "done"]
    /\ UNCHANGED << mgr, shuttingdown, backlog, hbuf, hconflict >>
    /\ UNCHANGED << netVars, workerVars, histVars >>
    /\ UNCHANGED supVars
    /\ UNCHANGED hostVars

\* a recv error as it would be if it took the other handler threads down too
HandlerResetAll(c) ==
    /\ mgr = "up" /\ hpc[c] = "select" /\ ~shuttingdown
    /\ clientEnd[c] = "reset"
    /\ hpc' = [d \in Conns |-> IF hpc[d] \in {"select", "split"} THEN "crashed" ELSE hpc[d]]
    /\ UNCHANGED << mgr, shuttingdown, client_sockets, backlog, hbuf, hconflict >>
    /\ UNCHANGED << netVars, workerVars, histVars >>
    /\ UNCHANGED supVars
    /\ UNCHANGED hostVars

\* line 57: recv raises ConnectionResetError, which nothing catches
HandlerReset(c) ==
    /\ mgr = "up" /\ hpc[c] = "select" /\ ~shuttingdown
    /\ clientEnd[c] = "reset"
    /\ hpc' = [hpc EXCEPT ![c] = "crashed"]
    /\ UNCHANGED << mgr, shuttingdown, client_sockets, backlog, hbuf, hconflict >>
    /\ UNCHANGED << netVars, workerVars, histVars >>
    /\ UNCHANGED supVars
    /\ UNCHANGED hostVars

\* line 54: `while not self.shuttingdown` ends the handler
HandlerShutdownExit(c) ==
    /\ mgr = "up" /\ hpc[c] = "select" /\ shuttingdown
    /\ hpc' = [hpc EXCEPT ![c] = "done"]
    /\ UNCHANGED << mgr, shuttingdown, client_sockets, backlog, hbuf, hconflict >>
    /\ UNCHANGED << netVars, workerVars, histVars >>
    /\ UNCHANGED supVars
    /\ UNCHANGED hostVars

\* the handler of w's connection has read all that w wrote, the connected message included
ConnectedReceived(w) == connectedSent[w] /\ c2m[w] = << >> /\ hpc[w] = "select"

\* a process launched with bot b's command is running
LiveWorker(b) == \E p \in Pids : procs[p].state = "alive" /\ procs[p].cmdline = Command(b)

\* Manager.stop_bot line 316, from the Stop button: `if bot_id in self.client_sockets`.
\* json.dumps and encode are called before line 319 looks the socket up again, so
\* the handler threads can run in between.  stop_bot has no return statement.
StopBot(b) ==
    /\ mgr = "up" /\ ~shuttingdown /\ stop_pc = NoId
    /\ stopCalls < MaxStops
    /\ stopCalls' = stopCalls + 1
    /\ stopAfterConn' = [w \in Workers |->
            stopAfterConn[w] \/ (w = b /\ ConnectedReceived(w))]
    /\ stopRequested' = IF LiveWorker(b) THEN stopRequested \cup {b} ELSE stopRequested
    /\ IF client_sockets[b] # NoSock
       THEN /\ stop_pc' = b
            /\ UNCHANGED stopOutcomes
       ELSE /\ stopOutcomes' = stopOutcomes \cup
                    {[entry |-> FALSE, sent |-> FALSE, result |-> "None"]}
            /\ UNCHANGED stop_pc
    /\ UNCHANGED << mgrVars, netVars, workerVars >>
    /\ UNCHANGED << dials, connectedSent, ackSeen, acksForCur, enq, sentCmds, handed,
                    rawSends, peerWrites >>
    /\ UNCHANGED << bot_processes, bot_process_info, procs, clock, startCalls, lastStart,
                    killCalls, restarts, exitConfirmed >>
    /\ UNCHANGED hostVars

\* stop_bot lines 317-321: self.client_sockets[bot_id].sendall(...), no line feed;
\* KeyError (the entry is gone) and socket errors are logged
StopBotSend ==
    /\ stop_pc # NoId
    /\ stop_pc' = NoId
    /\ LET c == client_sockets[stop_pc]
       IN IF c # NoSock /\ clientEnd[c] = "open"
          THEN /\ m2c' = [m2c EXCEPT ![c] = m2c[c] \o Encode(StopMsg)]
               /\ sentCmds' = [w \in Workers |->
                      IF w = c THEN Append(sentCmds[w], StopMsg) ELSE sentCmds[w]]
               /\ stopOutcomes' = stopOutcomes \cup
                      {[entry |-> TRUE, sent |-> TRUE, result |-> "None"]}
          ELSE /\ UNCHANGED << m2c, sentCmds >>
               /\ stopOutcomes' = stopOutcomes \cup
                      {[entry |-> TRUE, sent |-> FALSE, result |-> "None"]}
    /\ UNCHANGED << mgrVars, clientEnd, c2m, workerVars >>
    /\ UNCHANGED << dials, connectedSent, ackSeen, acksForCur, enq, handed,
                    stopCalls, stopAfterConn, rawSends, peerWrites >>
    /\ UNCHANGED << bot_processes, bot_process_info, procs, clock, startCalls, lastStart,
                    killCalls, restarts, stopRequested, exitConfirmed >>
    /\ UNCHANGED hostVars

\* ---------------------------------------------------------------- processes
\* the child process of Popen object bp has not been waited for
Ours(bp) == bp # NoProc /\ procs[bp.pid].state # "free" /\ procs[bp.pid].launch = bp.launch

\* Popen.poll() is None: no return code yet and the child is running
PollIsNone(bp) == bp.returncode = "None" /\ Ours(bp) /\ procs[bp.pid].state = "alive"

\* Popen.poll() when it is not None: the return code is kept (waitpid reaps the
\* child; a child something else reaped gives ECHILD and return code 0)
Polled(bp) == IF bp = NoProc \/ PollIsNone(bp) THEN bp ELSE [bp EXCEPT !.returncode = "set"]

\* the processes after bp.poll(): an exited child is reaped and its pid is free
Reaped(ps, bp) ==
    IF bp.returncode = "None" /\ Ours(bp) /\ ps[bp.pid].state = "zombie"
    THEN [ps EXCEPT ![bp.pid] = FreePid]
    ELSE ps

\* a process that ends: a child of the running Manager stays a zombie until it is
\* waited for, any other process is reaped at once
Died(proc) == IF proc.child THEN [proc EXCEPT !.state = "zombie"] ELSE FreePid

\* psutil's Process.cmdline(): empty for a zombie
Cmdline(proc) == IF proc.state = "zombie" THEN << >> ELSE proc.cmdline

\* the launches poll() shows to be over, among the Popen objects bps
PolledOver(bps) == { bps[b].launch : b \in { x \in BotIds : bps[x] # NoProc /\ ~PollIsNone(bps[x]) } }

\* Manager.shutdown, from closing the window; stop_bots is the value of
\* Manager.stopBotsOnShutdown read from config.json at line 356.  Lines 358-361
\* terminate() each Popen object whose poll() is None; nothing is written to a socket.
Shutdown(stop_bots) ==
    /\ mgr = "up" /\ ~shuttingdown /\ stop_pc = NoId
    /\ shuttingdown' = TRUE
    /\ IF stop_bots
       THEN /\ procs' = [p \in Pids |->
                    IF \E b \in BotIds : bot_processes[b].pid = p /\ Ours(bot_processes[b])
                                         /\ bot_processes[b].returncode = "None"
                    THEN (IF procs[p].state = "alive" THEN Died(procs[p]) ELSE FreePid)
                    ELSE procs[p]]
            /\ bot_processes' = [b \in BotIds |-> Polled(bot_processes[b])]
            /\ exitConfirmed' = exitConfirmed \cup PolledOver(bot_processes)
       ELSE UNCHANGED << procs, bot_processes, exitConfirmed >>
    /\ UNCHANGED << mgr, client_sockets, backlog, hpc, hbuf, hconflict >>
    /\ UNCHANGED << netVars, workerVars, histVars >>
    /\ UNCHANGED << bot_process_info, clock, stop_pc, startCalls, lastStart, killCalls,
                    restarts, stopOutcomes, stopRequested >>
    /\ UNCHANGED hostVars

HandlerLive(c) == hpc[c] \in {"select", "split"}

\* a process whose parent, the Manager, has ended: init adopts it and reaps it
Orphaned(proc) == IF proc.state = "zombie" THEN FreePid ELSE [proc EXCEPT !.child = FALSE]

\* Manager.__init__ lines 32-37: mainloop returned after root.quit(), the
\* server thread saw shuttingdown and was joined; client_threads is empty, so
\* no handler thread is waited for
InitReturns ==
    /\ mgr = "up" /\ shuttingdown /\ ~constructed
    /\ constructed' = TRUE
    /\ UNCHANGED << mgrVars, netVars, workerVars, histVars, supVars >>
    /\ UNCHANGED << file_torn, disk, m2_pc, m2_bot_id, m2_data, secondStarts, written,
                    tornRead, lastKill >>

\* the Manager process ends once mainloop returned and every thread has ended
ManagerExit ==
    /\ mgr = "up" /\ shuttingdown
    /\ \A c \in Conns : ~HandlerLive(c)
    /\ stop_pc = NoId
    /\ mgr' = "exited"
    /\ backlog' = {}
    /\ bot_processes' = [b \in BotIds |-> NoProc]
    /\ procs' = [p \in Pids |-> Orphaned(procs[p])]
    /\ UNCHANGED << shuttingdown, client_sockets, hpc, hbuf, hconflict >>
    /\ UNCHANGED << netVars, workerVars, histVars >>
    /\ UNCHANGED << bot_process_info, clock, stop_pc, startCalls, lastStart, killCalls,
                    restarts, stopOutcomes, stopRequested, exitConfirmed >>
    /\ constructed' = TRUE
    /\ UNCHANGED << file_torn, disk, m2_pc, m2_bot_id, m2_data, secondStarts, written,
                    tornRead, lastKill >>

\* the Manager program is started again: a new process with fresh fields; the
\* file temp/bot_process_info.json is as the last run left it
ManagerRestart ==
    /\ mgr = "exited"
    /\ restarts < MaxRestarts
    /\ restarts' = restarts + 1
    /\ mgr' = "up"
    /\ shuttingdown' = FALSE
    /\ client_sockets' = [b \in BotIds |-> NoSock]
    /\ UNCHANGED << backlog, hpc, hbuf, hconflict >>
    /\ UNCHANGED << netVars, workerVars, histVars >>
    /\ UNCHANGED << bot_processes, bot_process_info, procs, clock, stop_pc, startCalls,
                    lastStart, killCalls, stopOutcomes, stopRequested, exitConfirmed >>
    /\ constructed' = FALSE
    /\ UNCHANGED << file_torn, disk, m2_pc, m2_bot_id, m2_data, secondStarts, written,
                    tornRead, lastKill >>

\* start_bot as it would be without the look at the recorded pid
RecordedRunningIgnored(ps, rec) == FALSE

\* start_bot lines 290-294: the recorded pid exists and is not a zombie
RecordedRunning(ps, rec) == rec.pid # 0 /\ ps[rec.pid].state = "alive"

\* lines 295-297: the recorded pid is a zombie; p.wait(timeout=5) reaps it
RecordedZombie(ps, rec) == rec.pid # 0 /\ ps[rec.pid].state = "zombie"

\* the Tk callbacks as they would be if the window ran without the bound socket
GuiRunningUnbound == mgr \in {"up", "aborted"}

\* Manager.__init__ lines 28-32: the buttons act only inside root.mainloop(),
\* which is entered after bind returned
GuiRunning == mgr = "up"

\* Manager.start_bot, from the Start button; every bot_id of the GUI has a
\* configuration (line 264)
StartBot(b, limit) ==
    /\ GuiRunning /\ ~shuttingdown /\ stop_pc = NoId
    /\ startCalls < limit
    /\ startCalls' = startCalls + 1
    /\ LET bp == bot_processes[b]
           rec == bot_process_info[b]
           polled == [bot_processes EXCEPT ![b] = Polled(bp)]
           over == IF bp = NoProc THEN {} ELSE {bp.launch}
           ps1 == Reaped(procs, bp)
           ps2 == IF RecordedZombie(ps1, rec) THEN [ps1 EXCEPT ![rec.pid] = FreePid] ELSE ps1
           launch == clock + 1
       IN IF PollIsNone(bp)
          THEN \* lines 269-271: "already running"
               /\ lastStart' = [bot_id |-> b, outcome |-> "running"]
               /\ UNCHANGED << bot_processes, bot_process_info, procs, clock, exitConfirmed >>
               /\ UNCHANGED << written, tornRead >>
          ELSE IF file_torn
          THEN \* line 282: json.load raises on the partly written file (lines 310-311)
               /\ lastStart' = [bot_id |-> b, outcome |-> "failed"]
               /\ bot_processes' = polled
               /\ procs' = ps1
               /\ exitConfirmed' = exitConfirmed \cup over
               /\ tornRead' = TRUE
               /\ UNCHANGED << bot_process_info, clock, written >>
          ELSE IF RecordedRunning(ps1, rec)
          THEN \* lines 290-294: "already running with PID"
               /\ lastStart' = [bot_id |-> b, outcome |-> "recorded"]
               /\ bot_processes' = polled
               /\ procs' = ps1
               /\ exitConfirmed' = exitConfirmed \cup over
               /\ UNCHANGED << bot_process_info, clock, written, tornRead >>
          ELSE IF \A p \in Pids : ps2[p] # FreePid
          THEN \* line 301: Popen raises, "Failed to start bot" (lines 310-311)
               /\ lastStart' = [bot_id |-> b, outcome |-> "failed"]
               /\ bot_processes' = polled
               /\ procs' = ps2
               /\ exitConfirmed' = exitConfirmed \cup over
               /\ UNCHANGED << bot_process_info, clock, written, tornRead >>
          ELSE \* lines 301-308: launch, keep the Popen object, write the file
               \E p \in { q \in Pids : ps2[q] = FreePid } :
                   /\ procs' = [ps2 EXCEPT ![p] = [state |-> "alive", cmdline |-> Command(b),
                                                   launch |-> launch, child |-> TRUE]]
                   /\ bot_processes' = [bot_processes EXCEPT ![b] =
                           [pid |-> p, launch |-> launch, returncode |-> "None"]]
                   /\ clock' = launch
                   /\ exitConfirmed' = exitConfirmed \cup over
                   /\ UNCHANGED tornRead
                   /\ IF disk = "ok"
                      THEN /\ lastStart' = [bot_id |-> b, outcome |-> "launched"]
                           /\ bot_process_info' = [bot_process_info EXCEPT ![b] =
                                  [pid |-> p, command |-> Join(Command(b)), timestamp |-> launch]]
                           /\ written' = written \cup {b}
                      ELSE \* line 307: open raises after Popen, "Failed to start bot"
                           /\ lastStart' = [bot_id |-> b, outcome |-> "unrecorded"]
                           /\ UNCHANGED << bot_process_info, written >>
    /\ UNCHANGED << mgrVars, netVars, workerVars, histVars >>
    /\ UNCHANGED << stop_pc, killCalls, restarts, stopOutcomes, stopRequested >>
    /\ UNCHANGED << constructed, file_torn, disk, m2_pc, m2_bot_id, m2_data, secondStarts,
                    lastKill >>

\* kill_bot as it would be without the comparison of the command lines
KillMatchAny(proc, rec) == TRUE

\* kill_bot line 337: the command line of the process is the recorded command
KillMatch(proc, rec) == Join(Cmdline(proc)) = rec.command

\* Manager.kill_bot: terminate() the recorded pid if its command line is the
\* recorded command; the file is only read
KillBot(b) ==
    /\ GuiRunning /\ ~shuttingdown /\ stop_pc = NoId
    /\ killCalls < MaxKills
    /\ killCalls' = killCalls + 1
    /\ LET rec == bot_process_info[b]
       IN IF file_torn
          THEN \* line 326: json.load raises, nothing else runs
               /\ lastKill' = [bot_id |-> b, outcome |-> "error"]
               /\ tornRead' = TRUE
               /\ UNCHANGED << procs, exitConfirmed >>
          ELSE IF rec = NoRec
          THEN \* "No information found"
               /\ lastKill' = [bot_id |-> b, outcome |-> "none"]
               /\ UNCHANGED << procs, exitConfirmed, tornRead >>
          ELSE IF procs[rec.pid].state = "free"
          THEN \* "is not running"
               /\ lastKill' = [bot_id |-> b, outcome |-> "gone"]
               /\ exitConfirmed' = exitConfirmed \cup {rec.timestamp}
               /\ UNCHANGED << procs, tornRead >>
          ELSE IF KillMatch(procs[rec.pid], rec)
          THEN \* lines 337-339: p.terminate()
               /\ lastKill' = [bot_id |-> b, outcome |-> "killed"]
               /\ procs' = [procs EXCEPT ![rec.pid] = Died(procs[rec.pid])]
               /\ UNCHANGED << exitConfirmed, tornRead >>
          ELSE \* "PID is not associated with bot"
               /\ lastKill' = [bot_id |-> b, outcome |-> "other"]
               /\ exitConfirmed' = exitConfirmed \cup {rec.timestamp}
               /\ UNCHANGED << procs, tornRead >>
    /\ UNCHANGED << mgrVars, netVars, workerVars, histVars >>
    /\ UNCHANGED << bot_processes, bot_process_info, clock, stop_pc, startCalls, lastStart,
                    restarts, stopOutcomes, stopRequested >>
    /\ UNCHANGED << constructed, file_torn, disk, m2_pc, m2_bot_id, m2_data, secondStarts,
                    written >>

\* ------------------------------------------------------ the operating system
\* a worker process ends of its own accord
ProcExit(p) ==
    /\ procs[p].state = "alive" /\ procs[p].launch # 0
    /\ procs' = [procs EXCEPT ![p] = Died(procs[p])]
    /\ UNCHANGED << mgrVars, netVars, workerVars, histVars >>
    /\ UNCHANGED << bot_processes, bot_process_info, clock, stop_pc, startCalls, lastStart,
                    killCalls, restarts, stopOutcomes, stopRequested, exitConfirmed >>
    /\ UNCHANGED hostVars

\* another program is started and is given a free pid
OtherSpawn(p) ==
    /\ procs[p] = FreePid
    /\ procs' = [procs EXCEPT ![p] = [state |-> "alive", cmdline |-> OtherCmdline,
                                      launch |-> 0, child |-> FALSE]]
    /\ UNCHANGED << mgrVars, netVars, workerVars, histVars >>
    /\ UNCHANGED << bot_processes, bot_process_info, clock, stop_pc, startCalls, lastStart,
                    killCalls, restarts, stopOutcomes, stopRequested, exitConfirmed >>
    /\ UNCHANGED hostVars

\* it ends
OtherExit(p) ==
    /\ procs[p].state = "alive" /\ procs[p].launch = 0
    /\ procs' = [procs EXCEPT ![p] = FreePid]
    /\ UNCHANGED << mgrVars, netVars, workerVars, histVars >>
    /\ UNCHANGED << bot_processes, bot_process_info, clock, stop_pc, startCalls, lastStart,
                    killCalls, restarts, stopOutcomes, stopRequested, exitConfirmed >>
    /\ UNCHANGED hostVars

\* the directory temp becomes unwritable: open(..., 'w') raises from now on
DiskFails ==
    /\ disk = "ok"
    /\ disk' = "readonly"
    /\ UNCHANGED << mgrVars, netVars, workerVars, histVars, supVars >>
    /\ UNCHANGED << constructed, file_torn, m2_pc, m2_bot_id, m2_data, secondStarts, written,
                    tornRead, lastKill >>

DiskRecovers ==
    /\ disk = "readonly"
    /\ disk' = "ok"
    /\ UNCHANGED << mgrVars, netVars, workerVars, histVars, supVars >>
    /\ UNCHANGED << constructed, file_torn, m2_pc, m2_bot_id, m2_data, secondStarts, written,
                    tornRead, lastKill >>

\* ------------------------------------------------- a second Manager instance
\* The same program started a second time in the same directory, after
\* config.json was given another port (so that its bind succeeds). Its
\* start_bot runs line by line next to the first instance; its bot_processes
\* is empty.

\* start_bot lines 280-284 in the second instance: json.load into data
SecondRead(b) ==
    /\ m2_pc = "idle"
    /\ secondStarts < MaxSecondStarts
    /\ secondStarts' = secondStarts + 1
    /\ m2_bot_id' = b
    /\ IF file_torn
       THEN \* json.load raises, "Failed to start bot"
            /\ tornRead' = TRUE
            /\ UNCHANGED << m2_pc, m2_data >>
       ELSE /\ m2_pc' = "read"
            /\ m2_data' = bot_process_info
            /\ UNCHANGED tornRead
    /\ UNCHANGED << mgrVars, netVars, workerVars, histVars, supVars >>
    /\ UNCHANGED << constructed, file_torn, disk, written, lastKill >>

\* start_bot lines 287-307 in the second instance: the check of the recorded
\* pid, Popen, data[bot_id] = ..., and open(..., 'w'), which empties the file
SecondOpen ==
    /\ m2_pc = "read"
    /\ LET b == m2_bot_id
           rec == m2_data[b]
           launch == clock + 1
       IN IF \/ RecordedRunning(procs, rec)
             \/ RecordedZombie(procs, rec)
             \/ \A p \in Pids : procs[p] # FreePid
          THEN \* "already running with PID"; or p.wait(timeout=5) raises, the zombie
               \* being a child of the first instance; or Popen raises
               /\ m2_pc' = "idle"
               /\ UNCHANGED << procs, m2_data, clock, bot_process_info, file_torn >>
          ELSE \E p \in { q \in Pids : procs[q] = FreePid } :
                   /\ procs' = [procs EXCEPT ![p] = [state |-> "alive", cmdline |-> Command(b),
                                                   launch |-> launch, child |-> FALSE]]
                   /\ clock' = launch
                   /\ m2_data' = [m2_data EXCEPT ![b] =
                          [pid |-> p, command |-> Join(Command(b)), timestamp |-> launch]]
                   /\ bot_process_info' = [x \in BotIds |-> NoRec]
                   /\ file_torn' = TRUE
                   /\ m2_pc' = "dump"
    /\ UNCHANGED << mgrVars, netVars, workerVars, histVars >>
    /\ UNCHANGED << bot_processes, stop_pc, startCalls, lastStart, killCalls, restarts,
                    stopOutcomes, stopRequested, exitConfirmed >>
    /\ UNCHANGED << constructed, disk, m2_bot_id, secondStarts, written, tornRead, lastKill >>

\* start_bot line 308 in the second instance: json.dump(data, f) and close
SecondDump ==
    /\ m2_pc = "dump"
    /\ bot_process_info' = m2_data
    /\ file_torn' = FALSE
    /\ written' = written \cup {m2_bot_id}
    /\ m2_pc' = "idle"
    /\ UNCHANGED << mgrVars, netVars, workerVars, histVars >>
    /\ UNCHANGED << bot_processes, procs, clock, stop_pc, startCalls, lastStart, killCalls,
                    restarts, stopOutcomes, stopRequested, exitConfirmed >>
    /\ UNCHANGED << constructed, disk, m2_bot_id, m2_data, secondStarts, tornRead, lastKill >>

\* ------------------------------------------------------- other TCP clients
\* the raw clients are interchangeable: they connect in the order r1, r2
RawConnect(c) ==
    /\ c \in RawClients /\ clientEnd[c] = "unused"
    /\ c = "r2" => clientEnd["r1"] # "unused"
    /\ mgr = "up"
    /\ clientEnd' = [clientEnd EXCEPT ![c] = "open"]
    /\ backlog' = backlog \cup {c}
    /\ UNCHANGED << mgr, shuttingdown, client_sockets, hpc, hbuf, hconflict, c2m, m2c >>
    /\ UNCHANGED << workerVars, histVars >>
    /\ UNCHANGED supVars
    /\ UNCHANGED hostVars

RawLines ==
    { Encode(Msg("idonly", b)) \o << NL >> : b \in BotIds }
        \cup { Encode(Msg("number", NoId)) \o << NL >> }

RawSend(c, limit) ==
    /\ c \in RawClients /\ clientEnd[c] = "open"
    /\ rawSends < limit
    /\ rawSends' = rawSends + 1
    /\ \E line \in RawLines : c2m' = [c2m EXCEPT ![c] = c2m[c] \o line]
    /\ UNCHANGED << mgrVars, clientEnd, m2c, workerVars >>
    /\ UNCHANGED << dials, connectedSent, ackSeen, acksForCur, enq, sentCmds,
                    handed, stopCalls, stopAfterConn, peerWrites >>
    /\ UNCHANGED supVars
    /\ UNCHANGED hostVars

RawEnd(c) ==
    /\ c \in RawClients /\ clientEnd[c] = "open"
    /\ \E how \in {"closed", "reset"} : clientEnd' = [clientEnd EXCEPT ![c] = how]
    /\ UNCHANGED << mgrVars, c2m, m2c, workerVars, histVars >>
    /\ UNCHANGED supVars
    /\ UNCHANGED hostVars


\* ==================================================================== worker

\* BotBase.create_socket: connect() succeeds while the Manager's socket is bound
DialSucceeds == mgr = "up"

\* BotBase.run lines 116-121: set _running, dial, start the communication thread
RunConnect(w) ==
    /\ wpc[w] = "start"
    /\ DialSucceeds
    /\ running' = [running EXCEPT ![w] = TRUE]
    /\ dials' = [dials EXCEPT ![w] = dials[w] + 1]
    /\ sock' = [sock EXCEPT ![w] = "open"]
    /\ clientEnd' = [clientEnd EXCEPT ![w] = "open"]
    /\ backlog' = backlog \cup {w}
    /\ cpc' = [cpc EXCEPT ![w] = "select"]
    /\ wpc' = [wpc EXCEPT ![w] = "send"]
    /\ UNCHANGED << mgr, shuttingdown, client_sockets, hpc, hbuf, hconflict, c2m, m2c >>
    /\ UNCHANGED << ccur, waiting_for_ack, message_queue, queue_lock >>
    /\ UNCHANGED << connectedSent, ackSeen, acksForCur, enq, sentCmds, handed,
                    stopCalls, stopAfterConn, rawSends, peerWrites >>
    /\ UNCHANGED supVars
    /\ UNCHANGED hostVars

\* BotBase.run lines 116-127 when create_socket returns None: run without a
\* Manager, straight into the main loop
RunNoManager(w) ==
    /\ wpc[w] = "start"
    /\ ~DialSucceeds
    /\ running' = [running EXCEPT ![w] = TRUE]
    /\ dials' = [dials EXCEPT ![w] = dials[w] + 1]
    /\ wpc' = [wpc EXCEPT ![w] = "loop"]
    /\ UNCHANGED << mgrVars, netVars >>
    /\ UNCHANGED << sock, cpc, ccur, waiting_for_ack, message_queue, queue_lock >>
    /\ UNCHANGED << connectedSent, ackSeen, acksForCur, enq, sentCmds, handed,
                    stopCalls, stopAfterConn, rawSends, peerWrites >>
    /\ UNCHANGED supVars
    /\ UNCHANGED hostVars

\* BotBase.send_message line 83: sendall of json.dumps(connected), no line feed
SendConnected(w) ==
    /\ wpc[w] = "send"
    /\ c2m' = [c2m EXCEPT ![w] = c2m[w] \o Encode(ConnectedMsg(w))]
    /\ connectedSent' = [connectedSent EXCEPT ![w] = TRUE]
    /\ wpc' = [wpc EXCEPT ![w] = "ack_enter"]
    /\ UNCHANGED << mgrVars, clientEnd, m2c >>
    /\ UNCHANGED << running, sock, cpc, ccur, waiting_for_ack, message_queue, queue_lock >>
    /\ UNCHANGED << dials, ackSeen, acksForCur, enq, sentCmds, handed,
                    stopCalls, stopAfterConn, rawSends, peerWrites >>
    /\ UNCHANGED supVars
    /\ UNCHANGED hostVars

\* send_message lines 83-86 when sendall raises on a dead connection: logged,
\* and send_message returns without waiting
SendFails(w) ==
    /\ wpc[w] = "send"
    /\ mgr = "exited"
    /\ wpc' = [wpc EXCEPT ![w] = "loop"]
    /\ UNCHANGED << mgrVars, netVars >>
    /\ UNCHANGED << running, sock, cpc, ccur, waiting_for_ack, message_queue, queue_lock >>
    /\ UNCHANGED histVars
    /\ UNCHANGED supVars
    /\ UNCHANGED hostVars

\* BotBase.wait_for_ack lines 99-100: under ack_condition, waiting_for_ack = True
AckEnter(w) ==
    /\ wpc[w] = "ack_enter"
    /\ waiting_for_ack' = [waiting_for_ack EXCEPT ![w] = TRUE]
    /\ wpc' = [wpc EXCEPT ![w] = "ack_wait"]
    /\ UNCHANGED << mgrVars, netVars, histVars >>
    /\ UNCHANGED << running, sock, cpc, ccur, message_queue, queue_lock >>
    /\ UNCHANGED supVars
    /\ UNCHANGED hostVars

\* wait_for_ack lines 101-102: `while self.waiting_for_ack: wait(timeout)` is left
\* only once the flag is False, whatever the timeout (None here)
WaitReturns(w) == ~waiting_for_ack[w]

\* wait_for_ack returns, send_message returns, discord_run, into the main loop
AckWait(w) ==
    /\ wpc[w] = "ack_wait"
    /\ WaitReturns(w)
    /\ wpc' = [wpc EXCEPT ![w] = "loop"]
    /\ UNCHANGED << mgrVars, netVars, histVars >>
    /\ UNCHANGED << running, sock, cpc, ccur, waiting_for_ack, message_queue, queue_lock >>
    /\ UNCHANGED supVars
    /\ UNCHANGED hostVars

CommAlive(w) == cpc[w] \in {"select", "ack", "put"}

\* BotBase.run lines 130-136: one iteration of the main loop that finds a message;
\* process_message calls shutdown on a stop command, which clears _running and
\* joins the communication thread while queue_lock is still held
MainIter(w) ==
    /\ wpc[w] = "loop" /\ running[w]
    /\ queue_lock[w] = "free"
    /\ message_queue[w] # << >>
    /\ LET m == Head(message_queue[w])
       IN /\ message_queue' = [message_queue EXCEPT ![w] = Tail(message_queue[w])]
          /\ handed' = [handed EXCEPT ![w] = Append(handed[w], m)]
          /\ IF m.kind = "stop"
             THEN /\ running' = [running EXCEPT ![w] = FALSE]
                  /\ IF CommAlive(w)
                     THEN /\ wpc' = [wpc EXCEPT ![w] = "join"]
                          /\ queue_lock' = [queue_lock EXCEPT ![w] = "main"]
                     ELSE UNCHANGED << wpc, queue_lock >>
             ELSE UNCHANGED << running, wpc, queue_lock >>
    /\ UNCHANGED << mgrVars, netVars >>
    /\ UNCHANGED << sock, cpc, ccur, waiting_for_ack >>
    /\ UNCHANGED << dials, connectedSent, ackSeen, acksForCur, enq, sentCmds,
                    stopCalls, stopAfterConn, rawSends, peerWrites >>
    /\ UNCHANGED supVars
    /\ UNCHANGED hostVars

\* BotBase.shutdown lines 193-197: join(timeout=5) returns when the thread has
\* ended or after five seconds; then the `with queue_lock` block is left
JoinReturn(w) ==
    /\ wpc[w] = "join"
    /\ queue_lock' = [queue_lock EXCEPT ![w] = "free"]
    /\ wpc' = [wpc EXCEPT ![w] = "loop"]
    /\ UNCHANGED << mgrVars, netVars, histVars >>
    /\ UNCHANGED << running, sock, cpc, ccur, waiting_for_ack, message_queue >>
    /\ UNCHANGED supVars
    /\ UNCHANGED hostVars

\* run line 130: `while self._running` ends
MainStop(w) ==
    /\ wpc[w] = "loop" /\ ~running[w]
    /\ wpc' = [wpc EXCEPT ![w] = "stopped"]
    /\ UNCHANGED << mgrVars, netVars, histVars >>
    /\ UNCHANGED << running, sock, cpc, ccur, waiting_for_ack, message_queue, queue_lock >>
    /\ UNCHANGED supVars
    /\ UNCHANGED hostVars

\* the worker process ends once run returned and the communication thread ended;
\* the operating system closes its socket
WorkerExit(w) ==
    /\ wpc[w] = "stopped" /\ ~CommAlive(w)
    /\ wpc' = [wpc EXCEPT ![w] = "exited"]
    /\ sock' = [sock EXCEPT ![w] = "none"]
    /\ clientEnd' = [clientEnd EXCEPT ![w] =
            IF clientEnd[w] = "open" THEN "closed" ELSE clientEnd[w]]
    /\ UNCHANGED << mgrVars, c2m, m2c, histVars >>
    /\ UNCHANGED << running, cpc, ccur, waiting_for_ack, message_queue, queue_lock >>
    /\ UNCHANGED supVars
    /\ UNCHANGED hostVars

\* ------------------------------------------------------ communication thread

\* communication_loop line 60 / 65: the text read is the ack iff it is exactly 'OK'
IsAck(chunk) == chunk = OKText

\* communication_loop lines 59-64: what the loop makes of the bytes of one recv
LoopDecode(chunk) == JsonLoads(chunk)

\* communication_loop lines 55-60, 65-72: recv(1024) returns some of the bytes in
\* flight; 'OK' clears waiting_for_ack and notifies, anything else is to be acked
CommRecv(w) ==
    /\ cpc[w] = "select" /\ running[w]
    /\ m2c[w] # << >>
    /\ \E chunk \in Prefixes(m2c[w]) :
        /\ m2c' = [m2c EXCEPT ![w] = Drop(m2c[w], Len(chunk))]
        /\ IF IsAck(chunk)
           THEN /\ waiting_for_ack' = [waiting_for_ack EXCEPT ![w] = FALSE]
                /\ ackSeen' = [ackSeen EXCEPT ![w] = ackSeen[w] \/ connectedSent[w]]
                /\ UNCHANGED << cpc, ccur, acksForCur >>
           ELSE /\ ccur' = [ccur EXCEPT ![w] = chunk]
                /\ acksForCur' = [acksForCur EXCEPT ![w] = 0]
                /\ cpc' = [cpc EXCEPT ![w] = "ack"]
                /\ UNCHANGED << waiting_for_ack, ackSeen >>
    /\ UNCHANGED << mgrVars, clientEnd, c2m >>
    /\ UNCHANGED << wpc, running, sock, message_queue, queue_lock >>
    /\ UNCHANGED << dials, connectedSent, enq, sentCmds, handed,
                    stopCalls, stopAfterConn, rawSends, peerWrites >>
    /\ UNCHANGED supVars
    /\ UNCHANGED hostVars

\* the communication loop as it would be without the sendall of line 62
CommNoAck(w) ==
    /\ cpc[w] = "ack"
    /\ cpc' = [cpc EXCEPT ![w] = "put"]
    /\ UNCHANGED << mgrVars, netVars, histVars >>
    /\ UNCHANGED << wpc, running, sock, ccur, waiting_for_ack, message_queue, queue_lock >>
    /\ UNCHANGED supVars
    /\ UNCHANGED hostVars

\* lines 61-62: sendall of json.dumps({"status": "OK", "bot_id": ...})
CommAck(w) ==
    /\ cpc[w] = "ack"
    /\ c2m' = [c2m EXCEPT ![w] = c2m[w] \o Encode(AckMsg(w))]
    /\ acksForCur' = [acksForCur EXCEPT ![w] = acksForCur[w] + 1]
    /\ cpc' = [cpc EXCEPT ![w] = "put"]
    /\ UNCHANGED << mgrVars, clientEnd, m2c >>
    /\ UNCHANGED << wpc, running, sock, ccur, waiting_for_ack, message_queue, queue_lock >>
    /\ UNCHANGED << dials, connectedSent, ackSeen, enq, sentCmds, handed,
                    stopCalls, stopAfterConn, rawSends, peerWrites >>
    /\ UNCHANGED supVars
    /\ UNCHANGED hostVars

\* lines 63-64 and 73-75: under queue_lock, json.loads the text and put it on the
\* queue; a text that is not one JSON document raises, and the loop breaks
CommPut(w) ==
    /\ cpc[w] = "put"
    /\ queue_lock[w] = "free"
    /\ LET v == JsonLoads(ccur[w])
       IN IF v = JsonError
          THEN /\ cpc' = [cpc EXCEPT ![w] = "dead"]
               /\ UNCHANGED << message_queue, enq >>
          ELSE /\ cpc' = [cpc EXCEPT ![w] = "select"]
               /\ message_queue' = [message_queue EXCEPT ![w] = Append(message_queue[w], v)]
               /\ enq' = [enq EXCEPT ![w] = Append(enq[w], [msg |-> v, acks |-> acksForCur[w]])]
    /\ ccur' = [ccur EXCEPT ![w] = << >>]
    /\ UNCHANGED << mgrVars, netVars >>
    /\ UNCHANGED << wpc, running, sock, waiting_for_ack, queue_lock >>
    /\ UNCHANGED << dials, connectedSent, ackSeen, acksForCur, sentCmds, handed,
                    stopCalls, stopAfterConn, rawSends, peerWrites >>
    /\ UNCHANGED supVars
    /\ UNCHANGED hostVars

\* line 55: `while self._running` ends the thread
CommStop(w) ==
    /\ cpc[w] = "select" /\ ~running[w]
    /\ cpc' = [cpc EXCEPT ![w] = "dead"]
    /\ UNCHANGED << mgrVars, netVars, histVars >>
    /\ UNCHANGED << wpc, running, sock, ccur, waiting_for_ack, message_queue, queue_lock >>
    /\ UNCHANGED supVars
    /\ UNCHANGED hostVars

\* lines 59, 62, 73-75: recv or sendall raises once the Manager process is gone
CommSocketError(w) ==
    /\ cpc[w] \in {"select", "ack"} /\ running[w]
    /\ mgr = "exited"
    /\ cpc' = [cpc EXCEPT ![w] = "dead"]
    /\ UNCHANGED << mgrVars, netVars, histVars >>
    /\ UNCHANGED << wpc, running, sock, ccur, waiting_for_ack, message_queue, queue_lock >>
    /\ UNCHANGED supVars
    /\ UNCHANGED hostVars

\* --------------------------------------------------------------- a protocol peer
\* what the worker's code expects on its socket: the text 'OK' and JSON commands
PeerTexts == { OKText, Encode(StopMsg) }

PeerWrite(w) ==
    /\ sock[w] = "open" /\ mgr = "up"
    /\ peerWrites < MaxPeerWrites
    /\ peerWrites' = peerWrites + 1
    /\ \E text \in PeerTexts :
        /\ m2c' = [m2c EXCEPT ![w] = m2c[w] \o text]
        /\ sentCmds' = [sentCmds EXCEPT ![w] =
              IF text = OKText THEN sentCmds[w] ELSE Append(sentCmds[w], JsonLoads(text))]
    /\ UNCHANGED << mgrVars, clientEnd, c2m, workerVars >>
    /\ UNCHANGED << dials, connectedSent, ackSeen, acksForCur, enq, handed,
                    stopCalls, stopAfterConn, rawSends >>
    /\ UNCHANGED supVars
    /\ UNCHANGED hostVars

\* ============================================================ specifications
ManagerStep ==
    \/ \E c \in Conns : AcceptConn(c)
    \/ \E c \in Conns : HandlerRecv(c)
    \/ \E c \in Conns : HandlerProcess(c)
    \/ \E c \in Conns : HandlerEOF(c)
    \/ \E c \in Conns : HandlerReset(c)
    \/ \E c \in Conns : HandlerShutdownExit(c)
    \/ StopBotSend
    \/ ManagerExit

WorkerStep(w) ==
    \/ RunConnect(w)
    \/ RunNoManager(w)
    \/ SendConnected(w)
    \/ SendFails(w)
    \/ AckEnter(w)
    \/ AckWait(w)
    \/ MainIter(w)
    \/ JoinReturn(w)
    \/ MainStop(w)
    \/ CommRecv(w)
    \/ CommAck(w)
    \/ CommPut(w)
    \/ CommStop(w)
    \/ CommSocketError(w)

Operator ==
    \/ ManagerStart
    \/ \E b \in BotIds : StopBot(b)
    \/ \E stop_bots \in BOOLEAN : Shutdown(stop_bots)

RawStep(clients, limit) ==
    \/ \E c \in clients : RawConnect(c)
    \/ \E c \in clients : RawSend(c, limit)
    \/ \E c \in clients : RawEnd(c)

\* the Manager and the worker of this repository, and one other client
Next ==
    \/ ManagerStep
    \/ \E w \in Workers : WorkerStep(w)
    \/ Operator
    \/ RawStep({"r1"}, MaxRawSendsComposed)
    \/ \E w \in Workers : PeerWrite(w)
    \/ \E w \in Workers : WorkerExit(w)

Spec == Init /\ [][Next]_vars

\* every thread that can take a step eventually takes one; the operator and
\* the other clients are free not to act, and a worker process whose run has
\* returned ends only when its Discord thread, which is not of this code, ends
FairSpec ==
    /\ Spec
    /\ WF_vars(ManagerStep)
    /\ \A w \in Workers : WF_vars(WorkerStep(w))

\* the Manager alone, with two clients that write lines
ServerNext ==
    \/ ManagerStep
    \/ Operator
    \/ RawStep(RawClients, MaxRawSends)

ServerSpec == Init /\ [][ServerNext]_vars

\* the worker against any peer that speaks the protocol its code expects
PeerNext ==
    \/ \E w \in Workers : WorkerStep(w)
    \/ \E w \in Workers : PeerWrite(w)
    \/ \E w \in Workers : WorkerExit(w)
    \/ ManagerStart
    \/ \E stop_bots \in BOOLEAN : Shutdown(stop_bots)
    \/ ManagerExit

PeerSpec == Init /\ [][PeerNext]_vars

\* the worker's threads keep running; the peer is free not to act
FairPeerSpec == PeerSpec /\ \A w \in Workers : WF_vars(WorkerStep(w))

\* the Manager with its Start, Stop and close buttons, one client of its port
\* and the processes it launches
LifecycleNext ==
    \/ ManagerStep
    \/ Operator
    \/ \E b \in BotIds : StartBot(b, MaxStartsServed)
    \/ \E b \in BotIds : KillBot(b)
    \/ RawStep({"r1"}, MaxRawSendsComposed)
    \/ \E p \in Pids : ProcExit(p)
    \/ InitReturns

LifecycleSpec == Init /\ [][LifecycleNext]_vars

\* the Manager's threads keep running; the operator, the client and the
\* launched processes are free not to act
FairLifecycleSpec == LifecycleSpec /\ WF_vars(ManagerStep)

\* the Manager's supervision alone, over several runs of the Manager program,
\* beside other programs that take and free process ids
SupervisorNext ==
    \/ ManagerStart
    \/ \E stop_bots \in BOOLEAN : Shutdown(stop_bots)
    \/ ManagerExit
    \/ ManagerRestart
    \/ \E b \in BotIds : StartBot(b, MaxStarts)
    \/ \E b \in BotIds : KillBot(b)
    \/ \E p \in Pids : ProcExit(p)
    \/ \E p \in Pids : OtherSpawn(p)
    \/ \E p \in Pids : OtherExit(p)
    \/ ManagerBindFails

SupervisorSpec == Init /\ [][SupervisorNext]_vars

\* the Manager and its launches on a host where writing the file can fail
FaultyDiskNext ==
    \/ ManagerStart
    \/ \E b \in BotIds : StartBot(b, MaxStarts)
    \/ \E b \in BotIds : KillBot(b)
    \/ \E p \in Pids : ProcExit(p)
    \/ DiskFails
    \/ DiskRecovers

FaultyDiskSpec == Init /\ [][FaultyDiskNext]_vars

\* two Manager instances that share temp/bot_process_info.json
TwoManagerNext ==
    \/ ManagerStart
    \/ \E b \in BotIds : StartBot(b, MaxStartsServed)
    \/ \E b \in BotIds : KillBot(b)
    \/ \E b \in BotIds : SecondRead(b)
    \/ SecondOpen
    \/ SecondDump
    \/ \E p \in Pids : ProcExit(p)

TwoManagerSpec == Init /\ [][TwoManagerNext]_vars


\* ==================================================================== claims

ManagerGoing == shuttingdown \/ mgr = "exited"

\* C1: once worker w has written its connected message, the registry eventually
\* maps w to the socket w connected on (unless the Manager is shut down first).
C1_EventuallyRegistered ==
    \A w \in Workers : connectedSent[w] ~> (client_sockets[w] = w \/ ManagerGoing)

StopsEnqueued(w) == Cardinality({ i \in DOMAIN enq[w] : enq[w][i].msg = StopMsg })

\* C2: after one stop_bot(w) for a worker w whose connected message the Manager
\* has received, exactly one stop command is put on w's command queue.
C2_OneStopEnqueued ==
    \A w \in Workers : stopAfterConn[w] ~> (StopsEnqueued(w) = 1)

\* C3: a sender waiting for an ack always stops waiting, ack or no ack (here
\* even with the Manager staying up).
C3_AckWaitEnds ==
    \A w \in Workers : (wpc[w] = "ack_wait") ~> (wpc[w] # "ack_wait" \/ ManagerGoing)

InRunLoop(w) == wpc[w] \in {"loop", "join", "stopped", "exited"}

\* C4: a worker whose dial succeeded and that sent its connected message
\* eventually enters the `while self._running` loop of run (unless the Manager
\* is shut down first).
C4_ReachesRunLoop ==
    \A w \in Workers : connectedSent[w] ~> (InRunLoop(w) \/ ManagerGoing)

\* C8: every message a worker sends to the Manager is eventually answered by an
\* ack that the worker's communication loop recognises (unless the Manager is
\* shut down first).
C8_ConnectedIsAcked ==
    \A w \in Workers : connectedSent[w] ~> (ackSeen[w] \/ ManagerGoing)


\* a worker that has not begun shutdown and has no usable Manager connection
NoConnection(w) == running[w] /\ wpc[w] = "loop" /\ (sock[w] = "none" \/ cpc[w] = "dead")

ListenerUp == mgr = "up" /\ ~shuttingdown

\* C5: a worker that has not begun shutdown and is without a usable connection
\* eventually dials again once the Manager's listener is reachable (and stays so).
C5_EventuallyRedials ==
    \A w \in Workers : (NoConnection(w) /\ ListenerUp) ~> (dials[w] >= 2 \/ ManagerGoing)

IsPrefix(a, b) == Len(a) <= Len(b) /\ SubSeq(b, 1, Len(a)) = a

\* the communication loop will read no more (it has read all that was written
\* to w's socket, or it has ended), the queue is drained and w idles in its
\* main loop, the Manager still up
AllConsumed(w) ==
    /\ mgr = "up" /\ running[w] /\ wpc[w] = "loop"
    /\ cpc[w] = "dead" \/ (cpc[w] = "select" /\ m2c[w] = << >>)
    /\ message_queue[w] = << >> /\ queue_lock[w] = "free"

\* C6: the commands written to a worker's socket are handed to process_message
\* in the order written, none lost, however recv splits the byte stream.
C6_InOrderNoneLost ==
    \A w \in Workers :
        /\ IsPrefix(handed[w], sentCmds[w])
        /\ AllConsumed(w) => handed[w] = sentCmds[w]

\* C7: every message put on the command queue had exactly one ack written for
\* it, before the put.
C7_OneAckBeforePut ==
    \A w \in Workers : \A i \in DOMAIN enq[w] : enq[w][i].acks = 1

C7_Witness == \E w \in Workers : Len(enq[w]) >= 1 /\ message_queue[w] # << >>

\* C9: a registry entry is never moved from one socket to another: while bot_id
\* b is mapped to a socket, a message carrying b on another socket leaves it.
C9_NoOverwrite ==
    [][\A b \in BotIds :
          client_sockets[b] # NoSock => client_sockets'[b] \in {client_sockets[b], NoSock}]_vars

\* a message carrying a registered bot_id was processed on another socket
C9_Witness ==
    \E c \in Conns :
        /\ hconflict[c] # NoId
        /\ client_sockets[hconflict[c]] \notin {NoSock, c}

HandlerExited(c) == hpc[c] \in {"done", "crashed"}

\* C10: once the handler of a socket has exited, no registry entry maps to
\* that socket.
C10_ExitedHandlerUnregistered ==
    \A c \in Conns : HandlerExited(c) => \A b \in BotIds : client_sockets[b] # c

\* ------------------------------------------------------ supervision claims

LiveWorkers(b) == { p \in Pids : procs[p].state = "alive" /\ procs[p].cmdline = Command(b) }

RecordedMatches(b) ==
    LET rec == bot_process_info[b]
    IN /\ rec.pid # 0
       /\ procs[rec.pid].state = "alive"
       /\ Join(Cmdline(procs[rec.pid])) = rec.command

StartRefused == lastStart.outcome \in {"running", "recorded"}

\* C12: start_bot(b) refuses exactly when the recorded pid is alive and its
\* command line is the recorded launch command; a recorded pid that now belongs
\* to another program does not make it refuse.
C12_RefusesOnlyOwnCommand ==
    [][\A b \in BotIds :
          StartBot(b, MaxStarts) => (StartRefused' <=> RecordedMatches(b))]_vars

\* C13: after stop_bot(b) for a bot whose worker process is alive, the process
\* is eventually not running and its record is out of the file, whether or not
\* the worker acts on the stop command (unless the Manager is shut down first).
C13_StopEndsInKill ==
    \A b \in BotIds :
        (b \in stopRequested) ~>
            ((~LiveWorker(b) /\ bot_process_info[b] = NoRec) \/ ManagerGoing)

\* C14: every record in temp/bot_process_info.json is of a launch the Manager
\* has not seen to be over.
C14_RecordsOfLiveLaunches ==
    \A b \in BotIds :
        bot_process_info[b] # NoRec => bot_process_info[b].timestamp \notin exitConfirmed

\* bot b has a Popen object in bot_processes
Tracked(b) == bot_processes[b] # NoProc

\* C15: shutdown with stopBotsOnShutdown true writes the stop command to the
\* socket of every tracked bot_id that is registered; with stopBotsOnShutdown
\* false it writes to no socket and ends no process.
C15_ShutdownStopsTracked ==
    [][/\ Shutdown(TRUE) =>
            \A b \in BotIds :
                (Tracked(b) /\ client_sockets[b] # NoSock) =>
                    m2c'[client_sockets[b]] = m2c[client_sockets[b]] \o Encode(StopMsg)
       /\ Shutdown(FALSE) => (m2c' = m2c /\ procs' = procs)]_vars

\* C16: a stop_bot for a bot_id without a registry entry sends nothing and
\* returns NotConnected.
C16_NotConnectedReported ==
    \A o \in stopOutcomes : ~o.entry => (~o.sent /\ o.result = "NotConnected")

\* C17: accesses of client_sockets by different threads exclude each other:
\* while stop_bot is between its lookup of line 316 and its lookup of line 319,
\* no handler thread changes client_sockets.
C17_RegistryAccessExclusive ==
    [][stop_pc # NoId => client_sockets' = client_sockets]_vars

\* C18: a sender blocked in wait_for_ack when the communication loop has ended
\* is woken and stops waiting.
C18_BlockedSenderWoken ==
    \A w \in Workers :
        (wpc[w] = "ack_wait" /\ cpc[w] = "dead") ~> (wpc[w] # "ack_wait")

StopDequeued(w) == \E i \in DOMAIN handed[w] : handed[w][i] = StopMsg

\* C19: once the main loop has dequeued a stop command, eventually _running is
\* False, the communication thread has ended and the Manager socket is closed.
C19_StopReleasesChannel ==
    \A w \in Workers :
        StopDequeued(w) ~> (~running[w] /\ ~CommAlive(w) /\ sock[w] = "none")

\* an error on connection c: recv raises, or the line split off the buffer is
\* not a JSON object
ErrorStep(c) ==
    \/ HandlerReset(c)
    \/ /\ HandlerProcess(c)
       /\ LET v == JsonLoads(SubSeq(hbuf[c], 1, FirstNL(hbuf[c]) - 1))
          IN v = JsonError \/ v.kind = "number"

\* C20: an error on one connection leaves the accept loop running, every other
\* connection's handler where it was, and every registry entry of another
\* socket as it was.
C20_ErrorIsolated ==
    [][\A c \in Conns :
          ErrorStep(c) =>
              /\ mgr' = mgr /\ shuttingdown' = shuttingdown /\ backlog' = backlog
              /\ \A d \in Conns \ {c} : hpc'[d] = hpc[d] /\ hbuf'[d] = hbuf[d]
              /\ \A b \in BotIds :
                    client_sockets'[b] = client_sockets[b] \/ client_sockets[b] = c]_vars

\* a handler has crashed while another connection's handler runs on, registered
C20_Witness ==
    \E c \in Conns : \E d \in Conns \ {c} :
        /\ hpc[c] = "crashed"
        /\ HandlerLive(d)
        /\ \E b \in BotIds : client_sockets[b] = d

\* C21: when bind fails at startup the Manager is gone before the GUI runs:
\* that Manager instance makes no call of start_bot and launches no process.
C21_NoLaunchAfterFailedBind ==
    mgr = "aborted" => (startCalls = 0 /\ clock = 0 /\ \A p \in Pids : procs[p].launch = 0)

C21_Witness == mgr = "aborted" /\ \E p \in Pids : procs[p].state = "alive"

\* C22: what the receiver decodes from the bytes the sender writes for a message
\* is that message, from worker to Manager (the connected message) and from
\* Manager to worker (the stop command).
C22_FramesRoundTrip ==
    /\ \A w \in Workers : connectedSent[w] =>
           HandlerDecode(Encode(ConnectedMsg(w))) = << ConnectedMsg(w) >>
    /\ \A o \in stopOutcomes : o.sent => LoopDecode(Encode(StopMsg)) = StopMsg

\* C23: with a second Manager instance starting bots next to the first, every
\* record a Manager has written is in the file whenever the file is whole (no
\* lost update), and no Manager reads the file while it is partly written.
C23_TableUpdatesAtomic ==
    /\ ~file_torn => \A b \in written : bot_process_info[b] # NoRec
    /\ ~tornRead

\* C24: kill_bot never changes the file, and it changes a process only if the
\* record of bot_id exists, the process is the one with the recorded pid, that
\* pid exists, and its command line is the recorded command.
C24_KillOnlyRecordedCommand ==
    [][\A b \in BotIds : KillBot(b) =>
          /\ bot_process_info' = bot_process_info
          /\ \A p \in Pids : procs'[p] # procs[p] =>
                 LET rec == bot_process_info[b]
                 IN /\ rec.pid # 0 /\ rec.command # Join(<< >>)
                    /\ p = rec.pid
                    /\ procs[p].state # "free"
                    /\ Join(Cmdline(procs[p])) = rec.command]_vars

C24_Witness ==
    \E b \in BotIds : /\ lastKill = [bot_id |-> b, outcome |-> "killed"]
                      /\ bot_process_info[b] # NoRec
                      /\ procs[bot_process_info[b].pid].state # "alive"

\* C25: once the communication loop has processed an ack that came after the
\* connected message was written, send_message returns: the sender does not
\* stay in wait_for_ack.
C25_NoLostWakeup ==
    \A w \in Workers : ackSeen[w] ~> (wpc[w] \notin {"ack_enter", "ack_wait"})

\* C26: the main thread is never joining the communication thread, holding
\* queue_lock, while the communication thread waits for queue_lock.
C26_NoJoinUnderLock ==
    \A w \in Workers : ~(wpc[w] = "join" /\ queue_lock[w] = "main" /\ cpc[w] = "put")

\* C27: once Manager.__init__ has returned, no connection handler thread of
\* that Manager is still running.
C27_HandlersJoined ==
    (constructed /\ mgr = "up") => \A c \in Conns : ~HandlerLive(c)

\* C28: every worker tracked in bot_processes has a record in the file with
\* the pid of its process, also after a start_bot whose write of the file failed.
C28_TrackedIsRecorded ==
    \A b \in BotIds : Tracked(b) => bot_process_info[b].pid = bot_processes[b].pid

====
